---- MODULE Spec2Model ----
(***************************************************************************)
(* Model of the resource-binding and output-resolution engine of          *)
(* ecs_composex: the XResource descriptor (compose/x_resources) and the   *)
(* template-scope helpers (common).                                        *)
(*                                                                         *)
(* Conventions.  A Python string is a sequence of one-character strings   *)
(* (a token such as "::" stands for the characters it spells), so that    *)
(* the regular-expression substitutions of the code are computed.  None   *)
(* and the empty string are both the empty sequence: the code only tests  *)
(* such values for truthiness.  A Python value of mixed type is a record  *)
(* [t |-> type tag, v |-> characters].  Python objects carry an `id`      *)
(* field standing for their identity.                                      *)
(***************************************************************************)
EXTENDS Naturals, Sequences, FiniteSets, TLC

VARIABLES
    template,         \* the troposphere Template of the scope / of the consumer
    stackParameters,  \* target[0].stack.Parameters of the consumer
    res,              \* the XResource descriptor
    last              \* the last call made: its name, inputs, pre-state and outcome

vars == <<template, stackParameters, res, last>>

None == <<>>

(***************************************************************************)
(* Python dict, accessed by key only: a function.                          *)
(***************************************************************************)
FunSet(f, k, v) == [x \in (DOMAIN f) \cup {k} |-> IF x = k THEN v ELSE f[x]]

FunUpdate(f, g) ==
    [x \in (DOMAIN f) \cup (DOMAIN g) |-> IF x \in DOMAIN g THEN g[x] ELSE f[x]]

(***************************************************************************)
(* The template scope.                                                     *)
(***************************************************************************)
EmptyMetadata == [Interface |-> FALSE, ParameterGroups |-> <<>>, ParameterLabels |-> <<>>]

init_template ==
    [parameters |-> <<>>, outputs |-> <<>>, resources |-> <<>>,
     mappings |-> <<>>, metadata |-> EmptyMetadata]

\* The position of the group labelled `label`, 0 when there is none.
GroupIndex(groups, label) ==
    IF \E i \in DOMAIN groups : groups[i].Label = label
    THEN CHOOSE i \in DOMAIN groups :
            /\ groups[i].Label = label
            /\ \A j \in DOMAIN groups : groups[j].Label = label => i <= j
    ELSE 0

add_parameter_to_group_label(groups, parameter) ==
    LET i == GroupIndex(groups, parameter.group_label) IN
    IF groups = <<>> \/ i = 0
    THEN Append(groups, [Label |-> parameter.group_label,
                         Parameters |-> <<parameter.title>>])
    ELSE IF \E j \in DOMAIN groups[i].Parameters :
                groups[i].Parameters[j] = parameter.title
         THEN groups
         ELSE [groups EXCEPT ![i].Parameters = Append(@, parameter.title)]

add_parameters_metadata(metadata, parameter) ==
    LET m1 == [metadata EXCEPT !.Interface = TRUE]
        m2 == IF parameter.group_label # None
              THEN [m1 EXCEPT !.ParameterGroups =
                        add_parameter_to_group_label(@, parameter)]
              ELSE m1
    IN  IF parameter.label # None
        THEN [m2 EXCEPT !.ParameterLabels = FunSet(@, parameter.title, parameter.label)]
        ELSE m2

IsParameter(param) == param.cls \in {"Parameter", "CfnParameter"}

\* add_parameters: the template after the loop and the error that ended it.
RECURSIVE add_parameters(_, _)
add_parameters(tpl, parameters) ==
    IF parameters = <<>> THEN [tpl |-> tpl, err |-> "none"]
    ELSE LET param == Head(parameters) IN
         IF ~IsParameter(param) THEN [tpl |-> tpl, err |-> "TypeError"]
         ELSE LET t1 == IF param.title \notin DOMAIN tpl.parameters
                        THEN [tpl EXCEPT !.parameters = FunSet(@, param.title, param)]
                        ELSE tpl
                  t2 == IF param.cls = "Parameter"
                           /\ (param.group_label # None \/ param.label # None)
                        THEN [t1 EXCEPT !.metadata = add_parameters_metadata(@, param)]
                        ELSE t1
              IN  add_parameters(t2, Tail(parameters))

RECURSIVE add_outputs(_, _)
add_outputs(tpl, outputs) ==
    IF outputs = <<>> THEN [tpl |-> tpl, err |-> "none"]
    ELSE LET output == Head(outputs) IN
         IF output.cls # "Output" THEN [tpl |-> tpl, err |-> "TypeError"]
         ELSE add_outputs(
                IF output.title \notin DOMAIN tpl.outputs
                THEN [tpl EXCEPT !.outputs = FunSet(@, output.title, output)]
                ELSE tpl,
                Tail(outputs))

\* troposphere's == on resource objects: same title, same rendered content.
ResourceEq(a, b) == a.title = b.title /\ a.props = b.props

\* `resource in template.resources.values()`
ResourceInValues(tpl, resource) ==
    \E t \in DOMAIN tpl.resources : ResourceEq(resource, tpl.resources[t])

\* Template.add_resource of troposphere, called at line 209: a title already
\* registered is a duplicate key, a ValueError.
TemplateAddResource(tpl, resource) ==
    IF resource.title \in DOMAIN tpl.resources
    THEN [tpl |-> tpl, err |-> "ValueError"]
    ELSE [tpl |-> [tpl EXCEPT !.resources = FunSet(@, resource.title, resource)],
          err |-> "none"]

add_resource(tpl, resource, replace) ==
    IF ~ResourceInValues(tpl, resource)
    THEN TemplateAddResource(tpl, resource)
    ELSE IF replace
         THEN [tpl |-> [tpl EXCEPT !.resources = FunSet(@, resource.title, resource)],
               err |-> "none"]
         ELSE [tpl |-> tpl, err |-> "none"]

(***************************************************************************)
(* Mapping tables.  A mapping value is a scalar [scalar |-> s] or a dict;  *)
(* keys, sub-keys and attribute names are plain strings here.              *)
(***************************************************************************)
IsDict(x) == "scalar" \notin DOMAIN x

\* keyisset(key, d): the key is present and its value is truthy.
MapKeyIsSet(key, d) ==
    /\ IsDict(d)
    /\ key \in DOMAIN d
    /\ (IsDict(d[key]) => DOMAIN d[key] # {})

\* add_update_mapping with every existing key left alone (add-if-absent).
add_update_mapping_skip(mappings, mapping_key, mapping_value, mapping_subkey) ==
    IF mapping_key \notin DOMAIN mappings
    THEN FunSet(mappings, mapping_key, mapping_value)
    ELSE IF mapping_subkey # "" /\ mapping_subkey \notin DOMAIN mappings[mapping_key]
         THEN [mappings EXCEPT ![mapping_key] = FunSet(@, mapping_subkey, mapping_value)]
         ELSE mappings

\* mapping_subkey "" stands for None.
add_update_mapping(mappings, mapping_key, mapping_value, mapping_subkey) ==
    IF mapping_key \notin DOMAIN mappings
    THEN FunSet(mappings, mapping_key, FunUpdate(<<>>, mapping_value))
    ELSE IF mapping_subkey # "" /\ MapKeyIsSet(mapping_subkey, mappings[mapping_key])
         THEN [mappings EXCEPT ![mapping_key][mapping_subkey] = FunUpdate(@, mapping_value)]
         ELSE IF mapping_key # "" /\ mapping_subkey # ""
                 /\ ~MapKeyIsSet(mapping_subkey, mappings[mapping_key])
              THEN [mappings EXCEPT ![mapping_key] =
                        FunSet(@, mapping_subkey, mapping_value)]
              ELSE IF mapping_subkey = ""
                   THEN [mappings EXCEPT ![mapping_key] = FunUpdate(@, mapping_value)]
                   ELSE mappings

(***************************************************************************)
(* The template-scope helpers under calls of their callers: SpecScope      *)
(* registers parameters, outputs and resources, SpecMap mapping entries.   *)
(***************************************************************************)
MaxList == 2

NoResource == [built |-> FALSE]

T1 == <<"P", "1">>
T2 == <<"P", "2">>

ScopeParameters ==
    { [cls |-> "Parameter", title |-> T1, group_label |-> <<"G">>, label |-> None,
       return_value |-> None, id |-> 1],
      [cls |-> "Parameter", title |-> T1, group_label |-> None, label |-> <<"L">>,
       return_value |-> None, id |-> 2],
      [cls |-> "CfnParameter", title |-> T2, group_label |-> None, label |-> None,
       return_value |-> None, id |-> 3],
      [cls |-> "str", title |-> None, group_label |-> None, label |-> None,
       return_value |-> None, id |-> 4] }

ScopeOutputs ==
    { [cls |-> "Output", title |-> <<"O", "1">>, id |-> 1],
      [cls |-> "Output", title |-> <<"O", "1">>, id |-> 2],
      [cls |-> "Output", title |-> <<"O", "2">>, id |-> 3],
      [cls |-> "Parameter", title |-> <<"O", "2">>, id |-> 4] }

ScopeResources ==
    { [title |-> <<"R", "1">>, props |-> "A", id |-> 1],
      [title |-> <<"R", "1">>, props |-> "A", id |-> 2],
      [title |-> <<"R", "1">>, props |-> "B", id |-> 3],
      [title |-> <<"R", "2">>, props |-> "A", id |-> 4] }

ListsOf(S) == UNION { [1..n -> S] : n \in 1..MaxList }

InitScope ==
    /\ template = init_template
    /\ stackParameters = <<>>
    /\ res = NoResource
    /\ last = [op |-> "init", arg |-> <<>>, replace |-> FALSE,
               pre |-> init_template, err |-> "none"]

AddParameters ==
    \E parameters \in ListsOf(ScopeParameters) :
        LET r == add_parameters(template, parameters) IN
        /\ template' = r.tpl
        /\ last' = [op |-> "add_parameters", arg |-> parameters, replace |-> FALSE,
                    pre |-> template, err |-> r.err]
        /\ UNCHANGED <<stackParameters, res>>

AddOutputs ==
    \E outputs \in ListsOf(ScopeOutputs) :
        LET r == add_outputs(template, outputs) IN
        /\ template' = r.tpl
        /\ last' = [op |-> "add_outputs", arg |-> outputs, replace |-> FALSE,
                    pre |-> template, err |-> r.err]
        /\ UNCHANGED <<stackParameters, res>>

AddResource ==
    \E resource \in ScopeResources, replace \in BOOLEAN :
        LET r == add_resource(template, resource, replace) IN
        /\ template' = r.tpl
        /\ last' = [op |-> "add_resource", arg |-> resource, replace |-> replace,
                    pre |-> template, err |-> r.err]
        /\ UNCHANGED <<stackParameters, res>>

NextScope == AddParameters \/ AddOutputs \/ AddResource

SpecScope == InitScope /\ [][NextScope]_vars

\* C3 (as claimed): add_resource, add_parameters and add_outputs of an entry
\* whose title is already registered, without replace, leave the collection as
\* it was and raise nothing, also for a different object of the same title;
\* add_resource with replace=True stores the second entry under the title.
C3_IdempotentRegistration ==
    /\ (last.op = "add_resource" /\ last.arg.title \in DOMAIN last.pre.resources) =>
            /\ last.err = "none"
            /\ IF last.replace
               THEN template.resources[last.arg.title] = last.arg
               ELSE template.resources = last.pre.resources
    /\ (/\ last.op = "add_parameters"
        /\ \A i \in DOMAIN last.arg :
                IsParameter(last.arg[i]) /\ last.arg[i].title \in DOMAIN last.pre.parameters) =>
            last.err = "none" /\ template.parameters = last.pre.parameters
    /\ (/\ last.op = "add_outputs"
        /\ \A i \in DOMAIN last.arg :
                last.arg[i].cls = "Output" /\ last.arg[i].title \in DOMAIN last.pre.outputs) =>
            last.err = "none" /\ template.outputs = last.pre.outputs

M1 == <<>>

MapAttrValues ==
    { [k \in {"a"} |-> [scalar |-> "v1"]],
      [k \in {"a"} |-> [scalar |-> "v2"]],
      [k \in {"b"} |-> [scalar |-> "v1"]],
      M1 }

MapSubKeys == {"s1", "s2"}

MapKeyValues == { [k \in {s} |-> v] : s \in MapSubKeys, v \in MapAttrValues }

\* The calls made: every value for the key K1, with a sub-key or without, and
\* one value for a second key K2.
MapCalls ==
    { [key |-> "K1", subkey |-> "", value |-> v] : v \in MapKeyValues }
    \cup { [key |-> "K1", subkey |-> s, value |-> v] : s \in MapSubKeys, v \in MapAttrValues }
    \cup { [key |-> "K2", subkey |-> "", value |-> [k \in {"s1"} |-> M1]] }

AddUpdateMapping ==
    \E c \in MapCalls :
        /\ template' = [template EXCEPT !.mappings =
                add_update_mapping(@, c.key, c.value, c.subkey)]
        /\ last' = [op |-> "add_update_mapping", key |-> c.key,
                    value |-> c.value, subkey |-> c.subkey,
                    pre |-> template.mappings, err |-> "none"]
        /\ UNCHANGED <<stackParameters, res>>

InitMap ==
    /\ template = init_template
    /\ stackParameters = <<>>
    /\ res = NoResource
    /\ last = [op |-> "init", key |-> "", value |-> <<>>, subkey |-> "",
               pre |-> <<>>, err |-> "none"]

NextMap == AddUpdateMapping

SpecMap == InitMap /\ [][NextMap]_vars

\* The entry a call addresses: the one under the key, or under key and sub-key.
MapEntry(mappings, key, subkey) ==
    IF subkey = "" THEN mappings[key] ELSE mappings[key][subkey]

MapExists(mappings, key, subkey) ==
    /\ key \in DOMAIN mappings
    /\ subkey # "" => subkey \in DOMAIN mappings[key]

\* C4 (as claimed): add_update_mapping for a key (or key and sub-key) that
\* already exists leaves the existing entry unchanged.
C4_AddIfAbsent ==
    (last.op = "add_update_mapping" /\ MapExists(last.pre, last.key, last.subkey)) =>
        MapEntry(template.mappings, last.key, last.subkey)
            = MapEntry(last.pre, last.key, last.subkey)

\* C4 (amended): add_update_mapping for a key (or key and sub-key) that already
\* exists merges the new value into the existing entry: each key of the new
\* value is set to the new value, every other key of the entry is kept, and
\* the entries of the other keys and sub-keys are untouched.
C4_MergeOnExisting ==
    (last.op = "add_update_mapping" /\ MapExists(last.pre, last.key, last.subkey)) =>
        LET old == MapEntry(last.pre, last.key, last.subkey)
            new == MapEntry(template.mappings, last.key, last.subkey)
        IN  /\ DOMAIN new = (DOMAIN old) \cup (DOMAIN last.value)
            /\ \A k \in DOMAIN new :
                    new[k] = IF k \in DOMAIN last.value THEN last.value[k] ELSE old[k]
            /\ DOMAIN template.mappings = DOMAIN last.pre
            /\ \A k \in DOMAIN last.pre : k # last.key => template.mappings[k] = last.pre[k]
            /\ last.subkey # "" =>
                    \A s \in DOMAIN last.pre[last.key] :
                        s # last.subkey =>
                            template.mappings[last.key][s] = last.pre[last.key][s]

\* An existing sub-key entry {a: v1, b: v1} met a new value {a: v2}: a was
\* overwritten and b kept.
C4_Witness ==
    /\ last.op = "add_update_mapping"
    /\ last.subkey = "s1"
    /\ MapExists(last.pre, last.key, last.subkey)
    /\ DOMAIN MapEntry(last.pre, last.key, last.subkey) = {"a", "b"}
    /\ MapEntry(last.pre, last.key, last.subkey)["a"] = [scalar |-> "v1"]
    /\ last.value = [k \in {"a"} |-> [scalar |-> "v2"]]
    /\ MapEntry(template.mappings, last.key, last.subkey)["a"] = [scalar |-> "v2"]
    /\ MapEntry(template.mappings, last.key, last.subkey)["b"] = [scalar |-> "v1"]

(***************************************************************************)
(* Strings and the regular expressions of the code.                        *)
(***************************************************************************)
LowerSeq == <<"a", "b", "c", "d", "e", "f", "g", "h", "i", "j", "k", "l", "m",
              "n", "o", "p", "q", "r", "s", "t", "u", "v", "w", "x", "y", "z">>

UpperSeq == <<"A", "B", "C", "D", "E", "F", "G", "H", "I", "J", "K", "L", "M",
              "N", "O", "P", "Q", "R", "S", "T", "U", "V", "W", "X", "Y", "Z">>

DigitChars == {"0", "1", "2", "3", "4", "5", "6", "7", "8", "9"}

IsAlnum(c) ==
    \/ c \in DigitChars
    \/ \E i \in DOMAIN LowerSeq : LowerSeq[i] = c \/ UpperSeq[i] = c

\* NONALPHANUM = re.compile(r"([^a-zA-Z0-9]+)"); NONALPHANUM.sub("", s)
NONALPHANUM_sub(s) == SelectSeq(s, IsAlnum)

IsEnvChar(c) == IsAlnum(c) \/ c = "_"

\* ENV_VAR_NAME = re.compile(r"([^a-zA-Z0-9_]+)"); ENV_VAR_NAME.sub("", s)
ENV_VAR_NAME_sub(s) == SelectSeq(s, IsEnvChar)

\* str.upper()
upper(s) ==
    [i \in DOMAIN s |->
        IF \E j \in DOMAIN LowerSeq : LowerSeq[j] = s[i]
        THEN UpperSeq[CHOOSE j \in DOMAIN LowerSeq : LowerSeq[j] = s[i]]
        ELSE s[i]]

\* str.replace("-", "_")
replace_dash(s) == [i \in DOMAIN s |-> IF s[i] = "-" THEN "_" ELSE s[i]]

(***************************************************************************)
(* Resource definitions.  The value of a key of the definition is          *)
(* [t, Arn, Tags]: t is "absent" (no such key), "null", "empty" (an empty  *)
(* mapping) or "set" (a non-empty mapping or string); Arn and Tags are the *)
(* content of a Lookup value (Arn None: no Arn key).                       *)
(***************************************************************************)
DefValue(t) == [t |-> t, Arn |-> None, Tags |-> FALSE]

PyNone == DefValue("None")

EmptyDict == DefValue("empty")

\* keyisset(key, definition)
keyisset(key, definition) == definition[key].t = "set"

\* keypresent(key, definition)
keypresent(key, definition) == definition[key].t # "absent"

\* Python truthiness of a definition value
Truthy(v) == v.t = "set"

\* self.stack = None: no stack yet
NoStack == [set |-> FALSE, title |-> None, is_void |-> FALSE]

\* The constructor with the `and not self.lookup` of line 96 left out.
XResourceInit_KeepsProperties(name, definition, module_name, mapping_key) ==
    LET lookup == IF keyisset("Lookup", definition) THEN definition.Lookup ELSE PyNone
        use == IF keyisset("Use", definition) THEN definition.Use ELSE PyNone
        properties ==
            IF keyisset("Properties", definition) THEN definition.Properties
            ELSE IF keypresent("Properties", definition) THEN EmptyDict ELSE PyNone
        parameters ==
            IF keyisset("MacroParameters", definition)
            THEN definition.MacroParameters ELSE EmptyDict
    IN  [built |-> TRUE, name |-> name, module_name |-> module_name,
         mapping_key |-> IF mapping_key = None THEN module_name ELSE mapping_key,
         definition |-> definition, logical_name |-> NONALPHANUM_sub(name),
         settings |-> IF keyisset("Settings", definition)
                      THEN definition.Settings ELSE PyNone,
         use |-> use, lookup |-> lookup,
         lookup_session |-> IF Truthy(lookup) THEN "lookup_role" ELSE "settings",
         properties |-> properties, parameters |-> parameters,
         uses_default |-> ~(Truthy(lookup) \/ Truthy(parameters)
                            \/ Truthy(use) \/ Truthy(properties)),
         arn |-> None, cfn_resource |-> FALSE, stack |-> NoStack,
         cloud_control_attributes_mapping |-> FALSE,
         native_attributes_mapping |-> FALSE,
         output_properties |-> <<>>, outputs |-> <<>>, attributes_outputs |-> <<>>,
         ref_parameter |-> None, lookup_properties |-> <<>>, mappings |-> <<>>]

\* XResource.__init__, after validate_schema passed.  cfn_resource and the two
\* attribute-mapping tables are kept as "is set" flags: the code only tests them.
XResourceInit(name, definition, module_name, mapping_key) ==
    LET lookup == IF keyisset("Lookup", definition) THEN definition.Lookup ELSE PyNone
        use == IF keyisset("Use", definition) THEN definition.Use ELSE PyNone
        properties ==
            IF keyisset("Properties", definition) /\ ~Truthy(lookup)
            THEN definition.Properties
            ELSE IF ~keyisset("Properties", definition)
                    /\ keypresent("Properties", definition)
                 THEN EmptyDict
                 ELSE PyNone
        parameters ==
            IF keyisset("MacroParameters", definition)
            THEN definition.MacroParameters ELSE EmptyDict
    IN  [built |-> TRUE, name |-> name, module_name |-> module_name,
         mapping_key |-> IF mapping_key = None THEN module_name ELSE mapping_key,
         definition |-> definition, logical_name |-> NONALPHANUM_sub(name),
         settings |-> IF keyisset("Settings", definition)
                      THEN definition.Settings ELSE PyNone,
         use |-> use, lookup |-> lookup,
         lookup_session |-> IF Truthy(lookup) THEN "lookup_role" ELSE "settings",
         properties |-> properties, parameters |-> parameters,
         uses_default |-> ~(Truthy(lookup) \/ Truthy(parameters)
                            \/ Truthy(use) \/ Truthy(properties)),
         arn |-> None, cfn_resource |-> FALSE, stack |-> NoStack,
         cloud_control_attributes_mapping |-> FALSE,
         native_attributes_mapping |-> FALSE,
         output_properties |-> <<>>, outputs |-> <<>>, attributes_outputs |-> <<>>,
         ref_parameter |-> None, lookup_properties |-> <<>>, mappings |-> <<>>]

(***************************************************************************)
(* Construction, over every shape of definition: SpecCtor.                 *)
(***************************************************************************)
QueueName == <<"m", "y", "-", "q">>

ModuleName == <<"s", "q", "s">>

GoodArn == <<"arn-like", "service", "region", "123456789012", "my-queue">>

LookupArn(arn) == [t |-> "set", Arn |-> arn, Tags |-> FALSE]

LookupTags == [t |-> "set", Arn |-> None, Tags |-> TRUE]

KeyShapes == {DefValue("absent"), DefValue("null"), DefValue("empty"), DefValue("set")}

Definitions ==
    [Lookup : {DefValue("absent"), DefValue("null"), DefValue("empty"),
               LookupArn(GoodArn), LookupTags},
     Properties : KeyShapes,
     MacroParameters : KeyShapes,
     Use : {DefValue("absent"), DefValue("set")},
     Settings : {DefValue("absent"), DefValue("set")}]

InitCtor ==
    /\ template = init_template
    /\ stackParameters = <<>>
    /\ res = NoResource
    /\ last = [op |-> "init", err |-> "none"]

\* XResource(name, definition, module_name, settings): validate_schema raises on
\* a definition its module schema rejects, and only logs when the module has
\* no schema file.
Construct ==
    \E definition \in Definitions, schema \in {"conform", "invalid", "missing"} :
        /\ res' = IF schema = "invalid" THEN NoResource
                  ELSE XResourceInit(QueueName, definition, ModuleName, None)
        /\ last' = [op |-> "__init__",
                    err |-> IF schema = "invalid" THEN "ValidationError" ELSE "none"]
        /\ UNCHANGED <<template, stackParameters>>

NextCtor == Construct

SpecCtor == InitCtor /\ [][NextCtor]_vars

\* The three provenances as the descriptor carries them.
IsLookup(r) == Truthy(r.lookup)

HasPropertyMap(r) == r.properties # PyNone

IsNew(r) == Truthy(r.properties)

IsDefault(r) == r.uses_default

\* C8 (as claimed): exactly one provenance; Lookup iff a Lookup key is set, New
\* iff a Properties key is present and non-null (and no Lookup), Default iff none
\* of Lookup, Properties, MacroParameters, Use is present; a descriptor with a
\* lookup spec never carries a property map.
C8_ExactlyOneProvenance ==
    res.built =>
        LET d == res.definition
            claimedNew == /\ d.Properties.t \in {"empty", "set"}
                          /\ ~keyisset("Lookup", d)
            claimedDefault == \A k \in {"Lookup", "Properties", "MacroParameters", "Use"} :
                                  ~keypresent(k, d)
        IN  /\ IsLookup(res) <=> keyisset("Lookup", d)
            /\ HasPropertyMap(res) <=> claimedNew
            /\ IsDefault(res) <=> claimedDefault
            /\ Cardinality({p \in {"Lookup", "New", "Default"} :
                    \/ p = "Lookup" /\ IsLookup(res)
                    \/ p = "New" /\ HasPropertyMap(res)
                    \/ p = "Default" /\ IsDefault(res)}) = 1
            /\ IsLookup(res) => ~HasPropertyMap(res)

\* C8 (amended): the provenance is derived from the keys that are set (present
\* with a non-empty value): Lookup iff Lookup is set, New iff Properties is set
\* and Lookup is not, Default iff none of Lookup, Properties, MacroParameters,
\* Use is set; at most one of the three holds, none exactly when only
\* MacroParameters or Use are set beside an unset or overridden Properties; a
\* descriptor with a lookup spec carries no non-empty property map (None, or
\* the empty map when Properties is present but null or empty).
C8_DerivedProvenance ==
    res.built =>
        LET d == res.definition
            set(k) == keyisset(k, d)
        IN  /\ IsLookup(res) <=> set("Lookup")
            /\ IsNew(res) <=> (set("Properties") /\ ~set("Lookup"))
            /\ IsDefault(res) <=>
                    ~(set("Lookup") \/ set("Properties") \/ set("MacroParameters") \/ set("Use"))
            /\ Cardinality({p \in {"Lookup", "New", "Default"} :
                    \/ p = "Lookup" /\ IsLookup(res)
                    \/ p = "New" /\ IsNew(res)
                    \/ p = "Default" /\ IsDefault(res)}) <= 1
            /\ (~IsLookup(res) /\ ~IsNew(res) /\ ~IsDefault(res)) <=>
                    (~set("Lookup") /\ ~set("Properties")
                        /\ (set("MacroParameters") \/ set("Use")))
            /\ IsLookup(res) => ~IsNew(res)
            /\ IsLookup(res) =>
                    res.properties = (IF d.Properties.t \in {"null", "empty"}
                                      THEN EmptyDict ELSE PyNone)

\* A definition that sets both Lookup and Properties was constructed: it is a
\* Lookup descriptor without a property map.
C8_Witness ==
    /\ res.built
    /\ keyisset("Lookup", res.definition)
    /\ keyisset("Properties", res.definition)
    /\ IsLookup(res)
    /\ res.properties = PyNone

(***************************************************************************)
(* Python dict whose iteration order matters (output_properties,           *)
(* attributes_outputs, lookup_properties, target_definition): a sequence   *)
(* of [k, v] in insertion order.                                           *)
(***************************************************************************)
DictHas(d, k) == \E i \in DOMAIN d : d[i].k = k

DictGet(d, k) == d[CHOOSE i \in DOMAIN d : d[i].k = k].v

\* d[k] = v: a key already there keeps its place
DictPut(d, k, v) ==
    IF DictHas(d, k)
    THEN [i \in DOMAIN d |-> IF d[i].k = k THEN [k |-> k, v |-> v] ELSE d[i]]
    ELSE Append(d, [k |-> k, v |-> v])

(***************************************************************************)
(* Values of an output definition and the expressions built from them.     *)
(***************************************************************************)
Val(t, v) == [t |-> t, v |-> v]

Str(s) == Val("str", s)

\* bool(value)
TruthyVal(x) ==
    CASE x.t = "None" -> FALSE
      [] x.t \in {"str", "bool", "list"} -> x.v # <<>>
      [] x.t = "int" -> x.v # <<"0">>
      [] OTHER -> TRUE

\* str(value), as an f-string renders it
StrOf(x) ==
    CASE x.t = "bool" -> IF x.v = <<>> THEN <<"False">> ELSE <<"True">>
      [] x.t = "None" -> <<"None">>
      [] OTHER -> x.v

Expr(f, args) == [f |-> f, args |-> args]

\* CFN_EXPORT_DELIMITER
DELIM == <<"::">>

\* The attribute parameters (Parameter objects) a resource type declares.
ARN_P ==
    [cls |-> "Parameter", title |-> <<"A", "r", "n">>, group_label |-> None,
     label |-> None, return_value |-> None, Type |-> "String", id |-> 1]

NAME_P ==
    [cls |-> "Parameter", title |-> <<"N", "m">>, group_label |-> <<"G">>,
     label |-> None, return_value |-> <<"Q", "-", "N">>, Type |-> "String", id |-> 2]

\* Line 412 without the test on the length: any truthy fifth element is a suffix.
HasExportSuffix_AnyLength(output_definition) ==
    Len(output_definition) >= 5 /\ TruthyVal(output_definition[5])

\* Line 412: len(output_definition) == 5 and output_definition[4]
HasExportSuffix(output_definition) ==
    Len(output_definition) = 5 /\ TruthyVal(output_definition[5])

define_export_name(r, output_definition, attribute_parameter) ==
    IF HasExportSuffix(output_definition)
    THEN <<"${STACK_NAME}">> \o DELIM \o r.name \o DELIM \o StrOf(output_definition[5])
    ELSE <<"${STACK_NAME}">> \o DELIM \o r.logical_name \o DELIM
            \o attribute_parameter.title

\* Lines 433-435 with the issubclass test left out.
IsReferenceSpec_AnySource(kind, source) == kind.t = "Ref"

\* Lines 433-435: output_definition[2] is Ref and the source is an AWSObject
IsReferenceSpec(kind, source) == kind.t = "Ref" /\ source.t = "AWSObject"

\* Lines 450-453 with `not output_definition[3]` in place of `is False`.
IsLiteralSpec_Falsy(kind, extra) ==
    kind.t \in {"str", "int", "bool"} /\ ~TruthyVal(extra)

\* Lines 450-453: isinstance(output_definition[2], (str, int)) (bool is an int)
\* and output_definition[3] is False
IsLiteralSpec(kind, extra) ==
    kind.t \in {"str", "int", "bool"} /\ extra = Val("bool", <<>>)

\* set_new_resource_outputs: [err, value, export].  output_definition[i] of the
\* code is output_definition[i + 1] here.  Join(*list) takes a delimiter and
\* the values: a list of another length is a TypeError of the call.
set_new_resource_outputs(r, output_definition, attribute_parameter) ==
    LET source == output_definition[2]
        kind == output_definition[3]
        extra == output_definition[4]
        ok(value) == [err |-> "none", value |-> value,
                      export |-> define_export_name(r, output_definition,
                                                    attribute_parameter)]
        raise(e) == [err |-> e, value |-> Expr("none", <<>>), export |-> None]
    IN  IF IsReferenceSpec(kind, source) THEN ok(Expr("Ref", <<source>>))
        ELSE IF kind.t = "GetAtt" THEN ok(Expr("GetAtt", <<source, extra>>))
        ELSE IF kind.t = "Sub" THEN ok(Expr("Sub", <<extra>>))
        ELSE IF kind.t = "Join"
             THEN IF extra.t # "list" THEN raise("ValueError")
                  ELSE IF Len(extra.v) # 2 THEN raise("TypeError")
                  ELSE ok(Expr("Join", <<extra>>))
        ELSE IF IsLiteralSpec(kind, extra)
             THEN ok(Expr("Literal", <<Str(StrOf(kind))>>))
        ELSE raise("TypeError")

\* The "ImportParameter" of a binding
ImportParameter(r, output_name, attribute_parameter) ==
    [cls |-> "Parameter", title |-> output_name,
     group_label |-> IF attribute_parameter.group_label # None
                     THEN attribute_parameter.group_label ELSE r.module_name,
     label |-> None, return_value |-> attribute_parameter.return_value,
     Type |-> attribute_parameter.Type, id |-> 0]

\* set_attributes_from_mapping keyed by the return value as declared.
set_attributes_from_mapping_RawAlias(r, attribute_parameter) ==
    Expr("FindInMap", <<Str(r.mapping_key), Str(r.logical_name),
                        Str(IF attribute_parameter.return_value # None
                            THEN attribute_parameter.return_value
                            ELSE attribute_parameter.title)>>)

set_attributes_from_mapping(r, attribute_parameter) ==
    IF attribute_parameter.return_value # None
    THEN Expr("FindInMap", <<Str(r.mapping_key), Str(r.logical_name),
                             Str(NONALPHANUM_sub(attribute_parameter.return_value))>>)
    ELSE Expr("FindInMap", <<Str(r.mapping_key), Str(r.logical_name),
                             Str(attribute_parameter.title)>>)

\* The binding generate_outputs stores for an attribute of a looked-up resource
LookupBinding(r, attribute_parameter) ==
    LET output_name == r.logical_name \o attribute_parameter.title IN
    [Name |-> output_name,
     ImportValue |-> set_attributes_from_mapping(r, attribute_parameter),
     ImportParameter |-> ImportParameter(r, output_name, attribute_parameter)]

\* A binding of a new resource that defers to the lookup table and exports nothing.
NewBinding_Deferred(r, root_stack, output_definition, attribute_parameter, settings) ==
    LookupBinding(r, attribute_parameter)

\* The binding generate_outputs stores for an attribute of a new resource
NewBinding(r, root_stack, output_definition, attribute_parameter, settings) ==
    LET output_name == NONALPHANUM_sub(output_definition[1].v) IN
    [Name |-> output_name,
     Output |-> [cls |-> "Output", title |-> output_name, Value |-> settings.value,
                 Export |-> settings.export],
     ImportParameter |-> ImportParameter(r, output_name, attribute_parameter),
     ImportValue |-> Expr("GetAtt", <<Str(root_stack),
                                      Str(<<"Outputs.">> \o output_name)>>),
     Original |-> attribute_parameter]

\* Lines 491-507: one binding per entry of lookup_properties, until a key that
\* is no Parameter raises (a str has no return_value: AttributeError at line 497)
RECURSIVE BindLookupProperties(_, _, _)
BindLookupProperties(r, items, bindings) ==
    IF items = <<>> THEN [err |-> "none", bindings |-> bindings]
    ELSE IF Head(items).k.cls # "Parameter"
         THEN [err |-> "AttributeError", bindings |-> bindings]
         ELSE BindLookupProperties(r, Tail(items),
                DictPut(bindings, Head(items).k, LookupBinding(r, Head(items).k)))

\* Lines 508-535: one binding per entry of output_properties, until one raises
RECURSIVE BindOutputProperties(_, _, _, _)
BindOutputProperties(r, root_stack, items, bindings) ==
    IF items = <<>> THEN [err |-> "none", bindings |-> bindings]
    ELSE LET settings == set_new_resource_outputs(r, Head(items).v, Head(items).k) IN
         IF settings.err # "none" THEN [err |-> settings.err, bindings |-> bindings]
         ELSE BindOutputProperties(r, root_stack, Tail(items),
                DictPut(bindings, Head(items).k,
                        NewBinding(r, root_stack, Head(items).v, Head(items).k, settings)))

\* Lines 536-538: the Output of every binding that has one, in registry order
RECURSIVE BindingOutputs(_)
BindingOutputs(bindings) ==
    IF bindings = <<>> THEN <<>>
    ELSE (IF "Output" \in DOMAIN Head(bindings).v
          THEN <<Head(bindings).v.Output>> ELSE <<>>)
         \o BindingOutputs(Tail(bindings))

\* self.outputs.append(attr["Output"]) for every binding
AppendOutputs(outputs, bindings) == outputs \o BindingOutputs(bindings)

\* generate_outputs: [r, err]
generate_outputs(r) ==
    LET root_stack == IF r.stack.set /\ ~r.stack.is_void
                      THEN r.stack.title ELSE r.mapping_key
    IN  IF r.lookup_properties # <<>>
        THEN LET b == BindLookupProperties(r, r.lookup_properties, r.attributes_outputs)
             IN  IF b.err # "none"
                 THEN [r |-> [r EXCEPT !.attributes_outputs = b.bindings], err |-> b.err]
                 ELSE [r |-> [r EXCEPT !.attributes_outputs = b.bindings,
                                       !.outputs = AppendOutputs(@, b.bindings)],
                       err |-> "none"]
        ELSE IF r.output_properties # <<>>
        THEN LET b == BindOutputProperties(r, root_stack, r.output_properties,
                                           r.attributes_outputs)
             IN  IF b.err # "none"
                 THEN [r |-> [r EXCEPT !.attributes_outputs = b.bindings], err |-> b.err]
                 ELSE [r |-> [r EXCEPT !.attributes_outputs = b.bindings,
                                       !.outputs = AppendOutputs(@, b.bindings)],
                       err |-> "none"]
        ELSE [r |-> [r EXCEPT !.outputs = AppendOutputs(@, r.attributes_outputs)],
              err |-> "none"]

\* add_new_output_attribute: [r, err]
add_new_output_attribute(r, attribute_id, attribute_config) ==
    generate_outputs(
        [r EXCEPT !.output_properties =
            IF r.output_properties = <<>>
            THEN <<[k |-> attribute_id, v |-> attribute_config]>>
            ELSE DictPut(@, attribute_id, attribute_config)])

(***************************************************************************)
(* Lookup.  An identity string is the sequence of its ":"-separated        *)
(* segments.  The calls to the cloud interfaces are recorded in order as   *)
(* [fn, account, id, answer]; what they answer is the input `env` of the   *)
(* lookup: [tag_arn, own_account, cloud_control, native].                  *)
(***************************************************************************)
\* The identity pattern (arn_re) of the resource type: three fixed segments, a
\* 12-digit account id (group accountid) and a non-empty id (group id).
ArnRe == [pattern |-> <<"arn-like", "service", "region", "(?P<accountid>[0-9]{12})",
                        "(?P<id>.+)$">>,
          accounts |-> {"123456789012", "210987654321"}]

\* arn_re.match with the two groups exchanged.
arn_match_Swapped(arn_re, arn) ==
    IF /\ Len(arn) = 5
       /\ \A i \in 1..3 : arn[i] = arn_re.pattern[i]
       /\ arn[4] \in arn_re.accounts
       /\ arn[5] # ""
    THEN [matched |-> TRUE, id |-> arn[4], accountid |-> arn[5]]
    ELSE [matched |-> FALSE, id |-> "", accountid |-> ""]

\* arn_re.match(arn) and the groups "id" and "accountid" of the match
arn_match(arn_re, arn) ==
    IF /\ Len(arn) = 5
       /\ \A i \in 1..3 : arn[i] = arn_re.pattern[i]
       /\ arn[4] \in arn_re.accounts
       /\ arn[5] # ""
    THEN [matched |-> TRUE, id |-> arn[5], accountid |-> arn[4]]
    ELSE [matched |-> FALSE, id |-> "", accountid |-> ""]

Call(fn, account, id, answer) ==
    [fn |-> fn, account |-> account, id |-> id, answer |-> answer]

\* find_aws_resource_arn_from_tags_api: the identity string the tag search
\* yields, None when it finds no candidate.
find_aws_resource_arn_from_tags_api(env) == env.tag_arn

\* cloud_control_attributes_mapping_lookup: the remapped description, {} when
\* the description action is unsupported for the type
cloud_control_attributes_mapping_lookup(env) ==
    IF env.cloud_control.answer = "unsupported" THEN <<>> ELSE env.cloud_control.props

\* native_attributes_mapping_lookup: the callback's attributes, remapped when the
\* type declares a native mapping (the remapping keeps the map's keys here)
native_attributes_mapping_lookup(r, env) == env.native

\* generate_cfn_mappings_from_lookup_properties: [mappings, err]
RECURSIVE generate_cfn_mappings(_, _)
generate_cfn_mappings(items, mappings) ==
    IF items = <<>> THEN [mappings |-> mappings, err |-> "none"]
    ELSE LET parameter == Head(items).k IN
         IF parameter.cls # "Parameter" THEN [mappings |-> mappings, err |-> "TypeError"]
         ELSE generate_cfn_mappings(Tail(items),
                FunSet(mappings,
                       IF parameter.return_value # None
                       THEN NONALPHANUM_sub(parameter.return_value)
                       ELSE parameter.title,
                       Head(items).v))

\* Line 266 without the comparison of the accounts.
UseCloudControl_AnyAccount(r, env, account_id) == r.cloud_control_attributes_mapping

\* Line 266: _account_id == account_id and self.cloud_control_attributes_mapping
UseCloudControl(r, env, account_id) ==
    env.own_account = account_id /\ r.cloud_control_attributes_mapping

\* Lines 260-276 of lookup_resource, once arn, resource_id and account_id are set
ResolveAttributes(r, env, calls, resource_id, account_id) ==
    LET tier1 == UseCloudControl(r, env, account_id)
        props1 == IF tier1 THEN cloud_control_attributes_mapping_lookup(env) ELSE <<>>
        calls1 == calls \o <<Call("get_account_id", "", "", env.own_account)>>
                    \o (IF tier1 THEN <<Call("cloud_control", "", resource_id,
                                              env.cloud_control.answer)>> ELSE <<>>)
        props == IF props1 = <<>> THEN native_attributes_mapping_lookup(r, env) ELSE props1
        calls2 == calls1 \o (IF props1 = <<>>
                             THEN <<Call("native", account_id, resource_id, "")>> ELSE <<>>)
        r1 == [r EXCEPT !.lookup_properties = props]
        m == generate_cfn_mappings(props, r1.mappings)
        r2 == [r1 EXCEPT !.mappings = m.mappings]
        g == generate_outputs(r2)
    IN  IF r.arn = None
        THEN [r |-> r, err |-> "LookupError", err_args |-> <<>>, calls |-> calls]
        ELSE IF m.err # "none"
        THEN [r |-> r2, err |-> m.err, err_args |-> <<>>, calls |-> calls2]
        ELSE [r |-> g.r, err |-> g.err, err_args |-> <<>>, calls |-> calls2]

\* lookup_resource(arn_re, native_lookup_function, cfn_resource_type,
\* tagging_api_id): [r, err, err_args, calls]
lookup_resource(r, arn_re, env) ==
    LET r0 == [r EXCEPT !.output_properties = <<>>]
        lookup_attributes == r.lookup
        raise(rr, e, args, calls) == [r |-> rr, err |-> e, err_args |-> args, calls |-> calls]
    IN  IF Truthy(lookup_attributes) /\ lookup_attributes.Arn # None
        THEN LET arn_parts == arn_match(arn_re, lookup_attributes.Arn) IN
             IF ~arn_parts.matched
             THEN raise(r0, "KeyError", arn_re.pattern, <<>>)
             ELSE ResolveAttributes([r0 EXCEPT !.arn = lookup_attributes.Arn], env, <<>>,
                                    arn_parts.id, arn_parts.accountid)
        ELSE IF Truthy(lookup_attributes) /\ lookup_attributes.Tags
        THEN LET arn == find_aws_resource_arn_from_tags_api(env)
                 r1 == [r0 EXCEPT !.arn = arn]
                 calls == <<Call("tags", "", "", IF arn = None THEN "none" ELSE "arn")>>
                 arn_parts == arn_match(arn_re, arn)
             IN  IF arn = None THEN raise(r1, "TypeError", <<>>, calls)
                 ELSE IF ~arn_parts.matched THEN raise(r1, "AttributeError", <<>>, calls)
                 ELSE ResolveAttributes(r1, env, calls, arn_parts.id, arn_parts.accountid)
        ELSE raise(r0, "KeyError", <<>>, <<>>)

(***************************************************************************)
(* Consumer wiring.  The consumer is target[0]: its template and the       *)
(* Parameters of its stack.                                                *)
(***************************************************************************)
\* get_parameter_settings(resource, parameter): the title of the binding's
\* import parameter, the import parameter and the binding's import value
get_parameter_settings(r, parameter) ==
    LET binding == DictGet(r.attributes_outputs, parameter) IN
    <<binding.ImportParameter.title, binding.ImportParameter, binding.ImportValue>>

Environment(name, value) == [Name |-> name, Value |-> value]

RefParameter(parameter) == Expr("Ref", <<Val("Parameter", parameter.title)>>)

\* Lines 302-307: return value (or title) -> attribute parameter
RECURSIVE ResReturnNames(_, _)
ResReturnNames(bindings, names) ==
    IF bindings = <<>> THEN names
    ELSE LET prop_param == Head(bindings).k IN
         ResReturnNames(Tail(bindings),
            FunSet(names,
                   IF prop_param.return_value # None
                   THEN prop_param.return_value ELSE prop_param.title,
                   prop_param))

\* The entry of a looked-up resource threaded through a parameter, as the entry
\* of a new resource is.
LookupEntry_ByParameter(env_var_name, binding) ==
    Environment(env_var_name, RefParameter(binding.ImportParameter))

\* Lines 335-342 (and 378-381): the entry of a looked-up resource carries the
\* binding's ImportValue itself
LookupEntry(env_var_name, binding) == Environment(env_var_name, binding.ImportValue)

\* Lines 321-343: [env_vars, params_to_add]
RECURSIVE WireRequested(_, _, _, _)
WireRequested(r, names, items, acc) ==
    IF items = <<>> THEN acc
    ELSE LET prop_name == Head(items).k
             env_var_name == Head(items).v
         IN  WireRequested(r, names, Tail(items),
                IF prop_name \in DOMAIN names
                THEN IF r.cfn_resource
                     THEN [env_vars |-> Append(acc.env_vars,
                                Environment(env_var_name,
                                    RefParameter(DictGet(r.attributes_outputs,
                                        names[prop_name]).ImportParameter))),
                           params_to_add |-> Append(acc.params_to_add, names[prop_name])]
                     ELSE IF r.lookup_properties # <<>>
                          THEN [acc EXCEPT !.env_vars = Append(@,
                                    LookupEntry(env_var_name,
                                        DictGet(r.attributes_outputs,
                                                names[prop_name])))]
                          ELSE acc
                ELSE acc)

\* Lines 346-350: the parameters and the values of the settings
RECURSIVE SettingsParameters(_, _)
SettingsParameters(r, params) ==
    IF params = <<>> THEN <<>>
    ELSE <<get_parameter_settings(r, Head(params))[2]>>
            \o SettingsParameters(r, Tail(params))

RECURSIVE SettingsValues(_, _, _)
SettingsValues(r, params, values) ==
    IF params = <<>> THEN values
    ELSE LET setting == get_parameter_settings(r, Head(params)) IN
         SettingsValues(r, Tail(params), FunSet(values, setting[1], setting[3]))

\* generate_resource_service_env_vars(target, target_definition):
\* [err, ret, tpl, sp, target_definition]
generate_resource_service_env_vars(r, tpl, sp, target_definition) ==
    LET res_return_names == ResReturnNames(r.attributes_outputs, <<>>)
        td == IF r.ref_parameter # None /\ ~DictHas(target_definition, r.ref_parameter.title)
              THEN DictPut(target_definition, r.ref_parameter.title,
                           ENV_VAR_NAME_sub(upper(replace_dash(r.name))))
              ELSE target_definition
        w == WireRequested(r, res_return_names, td, [env_vars |-> <<>>, params_to_add |-> <<>>])
        added == add_parameters(tpl, SettingsParameters(r, w.params_to_add))
    IN  IF r.ref_parameter = None
        THEN [err |-> "AttributeError", ret |-> <<>>, tpl |-> tpl, sp |-> sp,
              target_definition |-> target_definition]
        ELSE IF w.params_to_add # <<>>
        THEN [err |-> added.err, ret |-> w.env_vars, tpl |-> added.tpl,
              sp |-> FunUpdate(sp, SettingsValues(r, w.params_to_add, <<>>)),
              target_definition |-> td]
        ELSE [err |-> "none", ret |-> w.env_vars, tpl |-> tpl, sp |-> sp,
              target_definition |-> td]

\* An unset ref_parameter falling through to the final raise of
\* generate_ref_env_var instead of returning early.
RefParameterNotSet_Raises(tpl, sp) ==
    [err |-> "ValueError", ret |-> <<>>, tpl |-> tpl, sp |-> sp]

\* Lines 359-363: "Default ref_parameter not set. Skipping env_vars"
RefParameterNotSet(tpl, sp) ==
    [err |-> "none", ret |-> <<>>, tpl |-> tpl, sp |-> sp]

\* generate_ref_env_var(target): [err, ret, tpl, sp]
generate_ref_env_var(r, tpl, sp) ==
    LET env_var_name == ENV_VAR_NAME_sub(replace_dash(upper(r.name)))
        raise(e) == [err |-> e, ret |-> <<>>, tpl |-> tpl, sp |-> sp]
    IN  IF r.ref_parameter = None
        THEN RefParameterNotSet(tpl, sp)
        ELSE IF r.cfn_resource /\ r.attributes_outputs # <<>>
        THEN IF ~DictHas(r.attributes_outputs, r.ref_parameter) THEN raise("KeyError")
             ELSE LET binding == DictGet(r.attributes_outputs, r.ref_parameter)
                      ref_param_settings == get_parameter_settings(r, r.ref_parameter)
                      added == add_parameters(tpl, <<ref_param_settings[2]>>)
                  IN  [err |-> added.err,
                       ret |-> <<Environment(env_var_name,
                                             RefParameter(binding.ImportParameter))>>,
                       tpl |-> added.tpl,
                       sp |-> FunSet(sp, ref_param_settings[1], ref_param_settings[3])]
        ELSE IF r.lookup_properties # <<>>
        THEN IF ~DictHas(r.attributes_outputs, r.ref_parameter) THEN raise("KeyError")
             ELSE [err |-> "none",
                   ret |-> <<LookupEntry(env_var_name,
                                DictGet(r.attributes_outputs, r.ref_parameter))>>,
                   tpl |-> tpl, sp |-> sp]
        ELSE raise("ValueError")

(***************************************************************************)
(* A descriptor under the calls of its resource module: Spec.              *)
(***************************************************************************)
MaxOutputs == 4

BadArn == <<"arn-like", "service", "region", "12345", "my-queue">>

Only(key, value) ==
    [k \in {"Lookup", "Properties", "MacroParameters", "Use", "Settings"} |->
        IF k = key THEN value ELSE DefValue("absent")]

PropertiesOnly == Only("Properties", DefValue("set"))

LifeDefinitions ==
    { PropertiesOnly,
      Only("Settings", DefValue("set")),
      Only("Lookup", LookupArn(GoodArn)),
      Only("Lookup", LookupArn(BadArn)),
      Only("Lookup", LookupTags) }

\* What the resource type and its builder set on the descriptor: ref_parameter
\* and cloud_control_attributes_mapping (the type's constructor), cfn_resource
\* (the builder of a resource that is not looked up).
Configured(r, ref_parameter, cloud_control, cfn_resource) ==
    [r EXCEPT !.ref_parameter = ref_parameter,
              !.cloud_control_attributes_mapping = cloud_control,
              !.cfn_resource = cfn_resource]

NoCall ==
    [op |-> "init", arg |-> <<>>, err |-> "none", err_args |-> <<>>,
     ret |-> <<>>, calls |-> <<>>, td |-> <<>>]

Done(op, arg, r) == [NoCall EXCEPT !.op = op, !.arg = arg, !.err = r.err]

Init ==
    /\ template = init_template
    /\ stackParameters = <<>>
    /\ last = NoCall
    /\ \E definition \in LifeDefinitions, cloud_control \in BOOLEAN :
        /\ ~keyisset("Lookup", definition) => ~cloud_control
        /\ res = Configured(XResourceInit(QueueName, definition, ModuleName, None),
                            None, cloud_control, FALSE)

Obj == Val("AWSObject", <<"Q">>)

OutA1 == <<Str(<<"q", "-", "A">>), Obj, Val("GetAtt", None), Str(<<"A", "r", "n">>)>>

OutA2 == <<Str(<<"q", "A">>), Obj, Val("Ref", None), Val("None", None)>>

OutABad == <<Str(<<"q", "A">>), Str(<<"x">>), Val("Ref", None), Val("None", None)>>

OutB == <<Str(<<"q", "N">>), Obj, Val("Sub", None), Str(<<"$", "x">>), Str(<<"Q", "N">>)>>

OutputAttributes ==
    { <<ARN_P, OutA1>>, <<ARN_P, OutA2>>, <<ARN_P, OutABad>>, <<NAME_P, OutB>> }

\* One call of add_new_output_attribute with an attribute of `attributes`
Bind(attributes, max) ==
    \E a \in attributes :
        LET g == add_new_output_attribute(res, a[1], a[2]) IN
        /\ Len(g.r.outputs) <= max
        /\ res' = g.r
        /\ last' = Done("add_new_output_attribute", a, g)
        /\ UNCHANGED <<template, stackParameters>>

\* One call of generate_outputs
Rebuild(max) ==
    LET g == generate_outputs(res) IN
    /\ Len(g.r.outputs) <= max
    /\ res' = g.r
    /\ last' = Done("generate_outputs", <<>>, g)
    /\ UNCHANGED <<template, stackParameters>>

\* One call of lookup_resource under the answers `env`
Lookup(envs, max) ==
    \E env \in envs :
        LET g == lookup_resource(res, ArnRe, env) IN
        /\ Len(g.r.outputs) <= max
        /\ res' = g.r
        /\ last' = [Done("lookup_resource", <<>>, g) EXCEPT
                        !.err_args = g.err_args, !.calls = g.calls]
        /\ UNCHANGED <<template, stackParameters>>

PropsA == <<[k |-> ARN_P, v |-> Str(<<"v", "1">>)]>>

PropsAB == <<[k |-> NAME_P, v |-> Str(<<"v", "2">>)], [k |-> ARN_P, v |-> Str(<<"v", "3">>)]>>

\* An attribute parameter whose title is the normalized return value of NAME_P
QN_P ==
    [cls |-> "Parameter", title |-> <<"Q", "N">>, group_label |-> None,
     label |-> None, return_value |-> None, Type |-> "String", id |-> 3]

\* A key of the answer that is a plain string, not a Parameter
RAW_KEY == [cls |-> "str", v |-> <<"A", "r", "n">>]

\* Answers with a key that is no Parameter, after and before a conforming one
PropsRawLast == <<[k |-> ARN_P, v |-> Str(<<"v", "5">>)], [k |-> RAW_KEY, v |-> Str(<<"v", "6">>)]>>

PropsRawFirst == <<[k |-> RAW_KEY, v |-> Str(<<"v", "6">>)], [k |-> ARN_P, v |-> Str(<<"v", "5">>)]>>

\* An answer with two attributes of the same normalized key
PropsClash == <<[k |-> NAME_P, v |-> Str(<<"v", "2">>)], [k |-> QN_P, v |-> Str(<<"v", "4">>)]>>

\* The answers of the cloud interfaces; an answer the lookup of r never asks
\* for is fixed.
LookupEnvs(r) ==
    { e \in [tag_arn : {None, GoodArn, BadArn},
             own_account : {"123456789012", "210987654321"},
             cloud_control : {[answer |-> "data", props |-> PropsA],
                              [answer |-> "empty", props |-> <<>>],
                              [answer |-> "unsupported", props |-> <<>>]},
             native : {<<>>, PropsA, PropsAB, PropsClash, PropsRawLast, PropsRawFirst}] :
        LET byTags == Truthy(r.lookup) /\ r.lookup.Arn = None /\ r.lookup.Tags
            arn == IF byTags THEN e.tag_arn
                   ELSE IF Truthy(r.lookup) THEN r.lookup.Arn ELSE None
            resolves == arn \in {GoodArn}
            tier1 == resolves /\ r.cloud_control_attributes_mapping
                        /\ e.own_account = "123456789012"
        IN  /\ ~byTags => e.tag_arn = None
            /\ ~(resolves /\ r.cloud_control_attributes_mapping)
                    => e.own_account = "123456789012"
            /\ ~tier1 => e.cloud_control.answer = "empty"
            /\ (tier1 /\ e.cloud_control.answer = "data") => e.native = <<>>
            /\ ~resolves => e.native = <<>> }

\* The builder of a resource that is not looked up registers its attributes.
AddNewOutputAttribute == ~Truthy(res.lookup) /\ Bind(OutputAttributes, MaxOutputs)

GenerateOutputs == Rebuild(MaxOutputs)

LookupResource == Lookup(LookupEnvs(res), MaxOutputs)

Next ==
    \/ AddNewOutputAttribute
    \/ GenerateOutputs
    \/ LookupResource

Spec == Init /\ [][Next]_vars

\* The binding registry agrees with the registered attributes, and the output
\* list holds exactly one entry, the binding's Output, per registered attribute.
RegistryConsistent(r) ==
    /\ Len(r.attributes_outputs) = Len(r.output_properties)
    /\ \A i \in DOMAIN r.output_properties :
        LET attribute == r.output_properties[i].k
            config == r.output_properties[i].v
        IN  /\ Cardinality({j \in DOMAIN r.attributes_outputs :
                                r.attributes_outputs[j].k = attribute}) = 1
            /\ "Output" \in DOMAIN DictGet(r.attributes_outputs, attribute)
            /\ DictGet(r.attributes_outputs, attribute).Output.Value.f = config[3].t
            /\ Cardinality({j \in DOMAIN r.outputs :
                    r.outputs[j] = DictGet(r.attributes_outputs, attribute).Output}) = 1
    /\ Len(r.outputs) = Len(r.attributes_outputs)

\* C1 (as claimed): a successful add_new_output_attribute on a New resource whose
\* registry and output list were consistent leaves exactly one binding per
\* attribute id, the latest registered, and exactly one entry of the output
\* list per attribute id of the registry.
C1_OneEntryPerAttribute ==
    [][(/\ last'.op = "add_new_output_attribute"
        /\ last'.err = "none"
        /\ IsNew(res)
        /\ RegistryConsistent(res)) => RegistryConsistent(res')]_vars

\* C2 (as claimed): generate_outputs called right after generate_outputs, the
\* registry unchanged in between, leaves the output list as the first call
\* left it.
C2_RebuildIdempotent ==
    [][(/\ last.op = "generate_outputs"
        /\ last'.op = "generate_outputs"
        /\ res'.output_properties = res.output_properties
        /\ res'.lookup_properties = res.lookup_properties) => res'.outputs = res.outputs]_vars

\* The tag search of the last lookup_resource found no candidate.
NoCandidate ==
    /\ last.op = "lookup_resource"
    /\ \E i \in DOMAIN last.calls :
            last.calls[i].fn = "tags" /\ last.calls[i].answer = "none"

\* C7 (as claimed): lookup_resource by tags with zero candidates raises the
\* LookupError of lookup_resource and leaves no binding, lookup map entry or
\* mapping entry.
C7_ZeroCandidatesNotFound ==
    NoCandidate =>
        /\ last.err = "LookupError"
        /\ res.attributes_outputs = <<>>
        /\ res.lookup_properties = <<>>
        /\ res.mappings = <<>>

\* C9: a resource whose definition sets only Properties is New, its lookup map
\* stays empty, and each of its bindings carries an owned expression with an
\* export record and no lookup-table reference.
C9_PropertiesOnlyOwned ==
    (res.built /\ res.definition = PropertiesOnly) =>
        /\ IsNew(res) /\ ~IsLookup(res) /\ ~IsDefault(res)
        /\ res.lookup_properties = <<>>
        /\ \A i \in DOMAIN res.attributes_outputs :
            LET b == res.attributes_outputs[i].v IN
            /\ "Output" \in DOMAIN b
            /\ b.Output.Value.f \in {"Ref", "GetAtt", "Sub", "Join", "Literal"}
            /\ b.Output.Export # None
            /\ b.ImportValue.f # "FindInMap"

\* Two attributes of a Properties-only resource are bound.
C9_Witness ==
    /\ res.built /\ res.definition = PropertiesOnly
    /\ last.op = "add_new_output_attribute" /\ last.err = "none"
    /\ Len(res.attributes_outputs) = 2

\* C10: lookup_resource with Lookup.Arn.  A well-formed string becomes the arn,
\* and the description interfaces are asked about its id (my-queue) and its
\* account (123456789012); a malformed one raises the KeyError that names the
\* pattern, before any interface is called and without any binding, lookup map
\* entry or mapping entry.
C10_ArnLookup ==
    (last.op = "lookup_resource" /\ Truthy(res.lookup) /\ res.lookup.Arn # None) =>
        IF res.lookup.Arn = GoodArn
        THEN /\ res.arn = GoodArn
             /\ \E i \in DOMAIN last.calls : last.calls[i].fn = "native"
                                             \/ last.calls[i].fn = "cloud_control"
             /\ \A i \in DOMAIN last.calls :
                    /\ last.calls[i].fn = "native" =>
                            /\ last.calls[i].account = "123456789012"
                            /\ last.calls[i].id = "my-queue"
                    /\ last.calls[i].fn = "cloud_control" => last.calls[i].id = "my-queue"
        ELSE /\ last.err = "KeyError"
             /\ last.err_args = ArnRe.pattern
             /\ last.calls = <<>>
             /\ res.arn = None
             /\ res.attributes_outputs = <<>>
             /\ res.lookup_properties = <<>>
             /\ res.mappings = <<>>

\* A well-formed Arn was resolved by the native callback and bound.
C10_Witness ==
    /\ last.op = "lookup_resource" /\ last.err = "none"
    /\ res.lookup.Arn = GoodArn
    /\ \E i \in DOMAIN last.calls : last.calls[i].fn = "native"
    /\ res.attributes_outputs # <<>>

(***************************************************************************)
(* A descriptor wired to a consumer: SpecWire.                             *)
(***************************************************************************)
MaxWireOutputs == 3

\* The resource module's stack, once it holds the new resource
ModuleStack == [set |-> TRUE, title |-> <<"S">>, is_void |-> FALSE]

WireAttributes == { <<ARN_P, OutA2>>, <<NAME_P, OutB>> }

\* The answers of the cloud interfaces to the lookup of the wired resource
WireEnvs ==
    [tag_arn : {None}, own_account : {"123456789012"},
     cloud_control : {[answer |-> "empty", props |-> <<>>]},
     native : {<<>>, PropsA, PropsAB}]

\* target[3]: what the consumer asks for, attribute name -> variable name
TargetDefinitions ==
    { <<>>,
      <<[k |-> <<"Q", "-", "N">>, v |-> <<"Q", "N">>]>>,
      <<[k |-> <<"A", "r", "n">>, v |-> <<"M", "Y">>]>>,
      <<[k |-> <<"Z", "z">>, v |-> <<"Z", "Z">>],
        [k |-> <<"Q", "-", "N">>, v |-> <<"Q", "N">>]>> }

InitWire ==
    /\ template = init_template
    /\ stackParameters = <<>>
    /\ last = NoCall
    /\ \E definition \in {PropertiesOnly, Only("Lookup", LookupArn(GoodArn))},
          ref_parameter \in {None, ARN_P, NAME_P}, cfn_resource \in BOOLEAN :
        /\ keyisset("Lookup", definition) => ~cfn_resource
        /\ res = Configured(XResourceInit(QueueName, definition, ModuleName, ModuleName),
                            ref_parameter, FALSE, cfn_resource)

\* self.stack is assigned the stack of the resource module
SetStack ==
    /\ ~Truthy(res.lookup)
    /\ ~res.stack.set
    /\ res' = [res EXCEPT !.stack = ModuleStack]
    /\ last' = [NoCall EXCEPT !.op = "set_stack"]
    /\ UNCHANGED <<template, stackParameters>>

WireAddNewOutputAttribute == ~Truthy(res.lookup) /\ Bind(WireAttributes, MaxWireOutputs)

WireGenerateOutputs == Rebuild(MaxWireOutputs)

WireLookupResource == Truthy(res.lookup) /\ Lookup(WireEnvs, MaxWireOutputs)

GenerateResourceServiceEnvVars ==
    \E target_definition \in TargetDefinitions :
        LET g == generate_resource_service_env_vars(res, template, stackParameters,
                                                    target_definition) IN
        /\ template' = g.tpl
        /\ stackParameters' = g.sp
        /\ last' = [Done("generate_resource_service_env_vars", target_definition, g)
                        EXCEPT !.ret = g.ret, !.td = g.target_definition]
        /\ UNCHANGED res

GenerateRefEnvVar ==
    LET g == generate_ref_env_var(res, template, stackParameters) IN
    /\ template' = g.tpl
    /\ stackParameters' = g.sp
    /\ last' = [Done("generate_ref_env_var", <<>>, g) EXCEPT !.ret = g.ret]
    /\ UNCHANGED res

NextWire ==
    \/ SetStack
    \/ WireAddNewOutputAttribute
    \/ WireGenerateOutputs
    \/ WireLookupResource
    \/ GenerateResourceServiceEnvVars
    \/ GenerateRefEnvVar

SpecWire == InitWire /\ [][NextWire]_vars

WiringOps == {"generate_resource_service_env_vars", "generate_ref_env_var"}

\* C5 (as claimed): a wiring call for a New resource leaves every parameter
\* the consumer already declares, and every value its parameter table already
\* holds, as they were.
C5_WiringLeavesExisting ==
    [][(last'.op \in WiringOps /\ res.cfn_resource /\ IsNew(res)) =>
            /\ \A t \in DOMAIN template.parameters :
                    /\ t \in DOMAIN template'.parameters
                    /\ template'.parameters[t] = template.parameters[t]
            /\ \A t \in DOMAIN stackParameters :
                    /\ t \in DOMAIN stackParameters'
                    /\ stackParameters'[t] = stackParameters[t]]_vars

PyFalse == Val("bool", <<>>)

PyTrue == Val("bool", <<"1">>)

\* output_definition[1]: the source object or value
OutputSources == { Obj, Str(<<"x">>) }

\* output_definition[2]: the expression classes, instances of primitive
\* types, and values that are neither
OutputKinds ==
    { Val("Ref", None), Val("GetAtt", None), Val("Sub", None), Val("Join", None),
      Str(<<"l", "i", "t">>), Val("int", <<"7">>), PyTrue, Val("float", <<"1", ".", "5">>),
      Val("None", None), Val("ImportValue", None) }

\* output_definition[3]
OutputExtras ==
    { PyFalse, PyTrue, Val("None", None), Val("int", <<"0">>), Val("int", <<"1">>),
      Str(<<>>), Str(<<"A", "r", "n">>), Val("list", <<>>),
      Val("list", <<",", "ab">>), Val("tuple", <<",", "ab">>) }

\* output_definition[4:]: nothing, a falsy or truthy fifth element, six elements
OutputTails ==
    { <<>>, <<Str(<<>>)>>, <<PyFalse>>, <<Val("None", None)>>,
      <<Str(<<"Q", "A", "r", "n">>)>>, <<Str(<<"Q", "A", "r", "n">>), PyTrue>> }

OutputDefinitions ==
    { <<Str(<<"q", "A">>), source, kind, extra>> \o tail :
        source \in OutputSources, kind \in OutputKinds, extra \in OutputExtras,
        tail \in OutputTails }

NoOutputCall ==
    [op |-> "init", arg |-> <<>>, attr |-> None, err |-> "none",
     value |-> Expr("none", <<>>), export |-> None]

\* The definition and the attribute parameter of the call to come
InitOutputs ==
    /\ template = init_template
    /\ stackParameters = <<>>
    /\ res = XResourceInit(QueueName, PropertiesOnly, ModuleName, ModuleName)
    /\ \E output_definition \in OutputDefinitions, attribute_parameter \in {ARN_P, NAME_P} :
        last = [NoOutputCall EXCEPT !.arg = output_definition, !.attr = attribute_parameter]

DefineExportName ==
    /\ last.op = "init"
    /\ last' = [last EXCEPT !.op = "define_export_name",
                            !.export = define_export_name(res, last.arg, last.attr)]
    /\ UNCHANGED <<template, stackParameters, res>>

SetNewResourceOutputs ==
    /\ last.op = "init"
    /\ LET g == set_new_resource_outputs(res, last.arg, last.attr) IN
        last' = [last EXCEPT !.op = "set_new_resource_outputs",
                             !.err = g.err, !.value = g.value, !.export = g.export]
    /\ UNCHANGED <<template, stackParameters, res>>

NextOutputs == DefineExportName \/ SetNewResourceOutputs

SpecOutputs == InitOutputs /\ [][NextOutputs]_vars

\* The values Python takes for false
FalsyValues ==
    { PyFalse, Val("None", None), Val("int", <<"0">>), Str(<<>>), Val("list", <<>>) }

\* C11: the export name is {scope}::{logical_name}::{attribute title}, except
\* for a definition of exactly five elements with a truthy fifth, where it is
\* {scope}::{name}::{fifth element} with the raw resource name; four elements,
\* five with a falsy fifth and more than five give the default form.
C11_ExportName ==
    last.op = "define_export_name" =>
        LET od == last.arg
            suffixed == Len(od) = 5 /\ od[5] \notin FalsyValues
        IN  last.export =
                IF suffixed
                THEN <<"${STACK_NAME}", "::", "m", "y", "-", "q", "::">> \o od[5].v
                ELSE <<"${STACK_NAME}", "::", "m", "y", "q", "::">> \o last.attr.title

\* A definition with the suffix QArn got the export name of the raw name.
C11_Witness ==
    /\ last.op = "define_export_name"
    /\ Len(last.arg) = 5
    /\ last.export = <<"${STACK_NAME}", "::", "m", "y", "-", "q", "::", "Q", "A", "r", "n">>

\* C17 (as claimed): the Literal form is the result exactly for the definitions
\* whose kind is a string or a number and whose extra element is falsy.
C17_LiteralIffFalsy ==
    last.op = "set_new_resource_outputs" =>
        ((last.err = "none" /\ last.value.f = "Literal") <=>
            (/\ last.arg[3].t \in {"str", "int", "float"}
             /\ last.arg[4] \in FalsyValues))

\* C17 (amended): the Literal form, the stringified kind, is the result exactly
\* for the definitions whose kind is a str or an int (a bool included, a float
\* not) and whose extra element is False itself; a primitive kind with any
\* other extra element is a TypeError.
C17_LiteralIffFalse ==
    last.op = "set_new_resource_outputs" =>
        LET kind == last.arg[3]
            extra == last.arg[4]
            literal == kind.t \in {"str", "int", "bool"} /\ extra = PyFalse
        IN  /\ (last.err = "none" /\ last.value.f = "Literal") <=> literal
            /\ literal => last.value.args =
                    <<Str(IF kind.t = "bool" THEN <<"True">> ELSE kind.v)>>
            /\ (kind.t \in {"str", "int", "bool", "float"} /\ ~literal)
                    => last.err = "TypeError"

\* The int kind 7 with the extra element False gave the literal "7".
C17_Witness ==
    /\ last.op = "set_new_resource_outputs"
    /\ last.arg[3] = Val("int", <<"7">>)
    /\ last.arg[4] = PyFalse
    /\ last.value = Expr("Literal", <<Str(<<"7">>)>>)

\* C18: a definition gives one of the five expression forms, the one of its
\* kind, with an export record, or an error without expression and export; a
\* Ref on a source that is no resource object, a Join whose extra element is
\* no sequence and a kind outside the five forms are errors.
C18_OneFormOrError ==
    last.op = "set_new_resource_outputs" =>
        LET source == last.arg[2]
            kind == last.arg[3]
            extra == last.arg[4]
        IN  /\ last.err = "none" =>
                /\ last.value.f \in {"Ref", "GetAtt", "Sub", "Join", "Literal"}
                /\ kind.t \in {"Ref", "GetAtt", "Sub", "Join"} => last.value.f = kind.t
                /\ kind.t \notin {"Ref", "GetAtt", "Sub", "Join"} => last.value.f = "Literal"
                /\ last.export # None
            /\ last.err # "none" => (last.value = Expr("none", <<>>) /\ last.export = None)
            /\ (kind.t = "Ref" /\ source.t # "AWSObject") => last.err # "none"
            /\ (kind.t = "Join" /\ extra.t \notin {"list", "tuple"}) => last.err # "none"
            /\ kind.t \notin {"Ref", "GetAtt", "Sub", "Join", "str", "int", "bool", "float"}
                    => last.err # "none"

\* A Ref on a plain string was rejected.
C18_Witness ==
    /\ last.op = "set_new_resource_outputs"
    /\ last.arg[3].t = "Ref" /\ last.arg[2].t = "str"
    /\ last.err = "TypeError"

\* The name a consumer requests an attribute by: its alias, else its title
RequestKey(parameter) ==
    IF parameter.return_value # None THEN parameter.return_value ELSE parameter.title

\* The indexes of the entries called `name` in a list of environment entries
EntriesNamed(entries, name) == {e \in DOMAIN entries : entries[e].Name = name}

\* C12 (as claimed): generate_resource_service_env_vars on a resource whose ref
\* attribute is set and bound.  A request that does not name the ref attribute
\* gets exactly one more entry, bound to the ref binding and called by the
\* resource's name uppercased with every non-alphanumeric character stripped
\* (MYQ for my-q); a request that names it gets the entry under the name the
\* consumer chose and no synthesized one.  With or without an alias on the ref
\* attribute.
C12_RefEntry ==
    (/\ last.op = "generate_resource_service_env_vars"
     /\ res.ref_parameter # None
     /\ DictHas(res.attributes_outputs, res.ref_parameter)
     /\ (res.cfn_resource \/ res.lookup_properties # <<>>)) =>
        LET ref == res.ref_parameter
            binding == DictGet(res.attributes_outputs, ref)
            bound == IF res.cfn_resource THEN RefParameter(binding.ImportParameter)
                     ELSE binding.ImportValue
            named == DictHas(last.arg, ref.title) \/ DictHas(last.arg, RequestKey(ref))
            chosen == IF DictHas(last.arg, ref.title) THEN DictGet(last.arg, ref.title)
                      ELSE DictGet(last.arg, RequestKey(ref))
            synthesized == <<"M", "Y", "Q">>
        IN  /\ last.err = "none"
            /\ IF named
               THEN /\ \E e \in EntriesNamed(last.ret, chosen) : last.ret[e].Value = bound
                    /\ EntriesNamed(last.ret, synthesized) = {}
                    /\ Cardinality({e \in DOMAIN last.ret : last.ret[e].Value = bound}) = 1
               ELSE /\ Cardinality(EntriesNamed(last.ret, synthesized)) = 1
                    /\ \A e \in EntriesNamed(last.ret, synthesized) : last.ret[e].Value = bound
                    /\ Cardinality({e \in DOMAIN last.ret : last.ret[e].Value = bound}) = 1

\* The entries `ret` answer the request: one entry per requested name the
\* registry knows, its value the binding's FindInMap expression itself, and no
\* entry for another name.
AnswersRequest(r, request, ret) ==
    LET known(i) == {j \in DOMAIN r.attributes_outputs :
                        RequestKey(r.attributes_outputs[j].k) = request[i].k}
    IN  /\ \A i \in DOMAIN request :
            IF known(i) # {}
            THEN /\ Cardinality(EntriesNamed(ret, request[i].v)) = 1
                 /\ \A e \in EntriesNamed(ret, request[i].v) :
                        /\ ret[e].Value.f = "FindInMap"
                        /\ \E j \in known(i) :
                                ret[e].Value = r.attributes_outputs[j].v.ImportValue
            ELSE EntriesNamed(ret, request[i].v) = {}
        /\ Len(ret) = Cardinality({i \in DOMAIN request : known(i) # {}})

\* The one entry of generate_ref_env_var is the FindInMap expression of the ref binding
AnswersRef(r, ret) ==
    /\ Len(ret) = 1
    /\ ret[1].Value.f = "FindInMap"
    /\ ret[1].Value = DictGet(r.attributes_outputs, r.ref_parameter).ImportValue

\* C13 (as claimed): wiring a looked-up resource leaves the consumer's
\* parameters and parameter table as they were; generate_resource_service_env_vars
\* returns, for each requested name the registry knows, exactly one entry whose
\* value is the binding's FindInMap expression itself, and no entry for a name
\* it does not know; generate_ref_env_var returns the entry of the ref binding.
C13_LookupWiring ==
    [][(IsLookup(res) /\ last'.op \in WiringOps) =>
        /\ UNCHANGED <<template, stackParameters>>
        /\ (last'.op = "generate_resource_service_env_vars" /\ last'.err = "none")
                => AnswersRequest(res, last'.td, last'.ret)
        /\ (last'.op = "generate_ref_env_var" /\ last'.err = "none"
                /\ res.ref_parameter # None) => AnswersRef(res, last'.ret)]_vars

\* C13 (amended): the same for a looked-up resource whose lookup map is not
\* empty; with an empty lookup map generate_resource_service_env_vars returns no
\* entry, also for names the registry knows, and generate_ref_env_var with a ref
\* attribute raises ValueError; the consumer is left as it was in every case.
C13_ResolvedLookupWiring ==
    [][(IsLookup(res) /\ last'.op \in WiringOps) =>
        /\ UNCHANGED <<template, stackParameters>>
        /\ (last'.op = "generate_resource_service_env_vars" /\ last'.err = "none") =>
                IF res.lookup_properties # <<>>
                THEN AnswersRequest(res, last'.td, last'.ret)
                ELSE last'.ret = <<>>
        /\ (last'.op = "generate_ref_env_var" /\ res.ref_parameter # None) =>
                IF res.lookup_properties # <<>>
                THEN last'.err = "none" => AnswersRef(res, last'.ret)
                ELSE last'.err = "ValueError" /\ last'.ret = <<>>]_vars

\* A looked-up resource with two bindings was wired on a request naming one of
\* them next to an unknown name, and returned two entries (the requested one
\* and the ref entry).
C13_Witness ==
    /\ IsLookup(res)
    /\ last.op = "generate_resource_service_env_vars" /\ last.err = "none"
    /\ Len(res.attributes_outputs) = 2
    /\ Len(last.arg) = 2
    /\ Len(last.ret) = 2
    /\ template = init_template /\ stackParameters = <<>>

(***************************************************************************)
(* The descriptors of one template scope, constructed one after another:   *)
(* SpecNames.  res is the list of the live descriptors.                    *)
(***************************************************************************)
MaxDescriptors == 3

\* Names of the resources of one module; three of them normalize to myq
ScopeNames ==
    { <<"m", "y", "-", "q">>, <<"m", "y", "q">>, <<"m", "y", "_", "q">>,
      <<"q", "2">>, <<"q", "-", "2">>, <<"M", "y", "Q">> }

InitNames ==
    /\ template = init_template
    /\ stackParameters = <<>>
    /\ res = <<>>
    /\ last = [op |-> "init", arg |-> None, err |-> "none"]

\* XResource(name, definition, module_name, settings) for one more resource of
\* the module, whose names are the keys of one mapping; the definition conforms
\* to the module's schema
ConstructNamed ==
    \E name \in ScopeNames :
        /\ Len(res) < MaxDescriptors
        /\ \A i \in DOMAIN res : res[i].name # name
        /\ res' = Append(res, XResourceInit(name, PropertiesOnly, ModuleName, None))
        /\ last' = [op |-> "__init__", arg |-> name, err |-> "none"]
        /\ UNCHANGED <<template, stackParameters>>

NextNames == ConstructNamed

SpecNames == InitNames /\ [][NextNames]_vars

\* C14 (as claimed): no two live descriptors of the scope share a logical name;
\* the construction of a descriptor whose name normalizes to the logical name of
\* an earlier one (my-q after myq) fails.
C14_UniqueLogicalNames ==
    \A i, j \in DOMAIN res :
        i # j => res[i].logical_name # res[j].logical_name

\* The last lookup_resource reached the resolution of the attributes.
Resolving ==
    /\ last.op = "lookup_resource"
    /\ \E i \in DOMAIN last.calls : last.calls[i].fn = "get_account_id"

\* The answers the last lookup_resource got from the interface fn
AnswersOf(fn) == {last.calls[i].answer : i \in {j \in DOMAIN last.calls : last.calls[j].fn = fn}}

\* C15: the generic description is asked iff the caller's own account is the
\* account of the identity and the resource declares a generic mapping; the
\* native callback is called, with the account and the id of the identity, iff
\* the generic description was not asked or gave no data; an unsupported action
\* counts as no data and raises nothing; generic data becomes the lookup map and
\* the native callback is then not called.
C15_TwoTier ==
    Resolving =>
        LET generic == AnswersOf("cloud_control") # {}
            native == AnswersOf("native") # {}
        IN  /\ generic <=> (/\ AnswersOf("get_account_id") = {res.arn[4]}
                            /\ res.cloud_control_attributes_mapping)
            /\ native <=> (~generic \/ AnswersOf("cloud_control") \subseteq {"empty", "unsupported"})
            /\ \A i \in DOMAIN last.calls :
                /\ last.calls[i].fn = "native" =>
                        (last.calls[i].account = res.arn[4] /\ last.calls[i].id = res.arn[5])
                /\ last.calls[i].fn = "cloud_control" => last.calls[i].id = res.arn[5]
            /\ "unsupported" \in AnswersOf("cloud_control") =>
                    /\ native
                    /\ last.err # "none" =>
                            \E i \in DOMAIN res.lookup_properties :
                                res.lookup_properties[i].k.cls # "Parameter"
            /\ "data" \in AnswersOf("cloud_control") =>
                    (~native /\ res.lookup_properties = PropsA /\ last.err = "none")

\* The generic description was unsupported and the native callback answered.
C15_Witness ==
    /\ Resolving
    /\ "unsupported" \in AnswersOf("cloud_control")
    /\ AnswersOf("native") # {}
    /\ last.err = "none"
    /\ res.lookup_properties # <<>>

\* C16 (as claimed): after a successful lookup_resource each attribute of the
\* lookup map has a binding whose expression is FindInMap(mapping key, logical
\* name, k), k the alias of the attribute if it declares one and its title
\* otherwise, and the mapping table holds the attribute's value under k.
C16_KeyIsAlias ==
    (last.op = "lookup_resource" /\ last.err = "none") =>
        \A i \in DOMAIN res.lookup_properties :
            LET p == res.lookup_properties[i].k
                k == IF p.return_value # None THEN p.return_value ELSE p.title
            IN  /\ DictHas(res.attributes_outputs, p)
                /\ DictGet(res.attributes_outputs, p).ImportValue =
                        Expr("FindInMap", <<Str(res.mapping_key), Str(res.logical_name), Str(k)>>)
                /\ k \in DOMAIN res.mappings
                /\ res.mappings[k] = res.lookup_properties[i].v

\* The key of an attribute: its alias without the characters that are neither
\* letters nor digits, its title when it declares no alias
NormalizedKey(p) ==
    IF p.return_value # None THEN SelectSeq(p.return_value, IsAlnum) ELSE p.title

\* C16 (amended): the same with k the alias stripped of its non-alphanumeric
\* characters (QN for Q-N), else the title; the mapping table holds under k the
\* value of the last attribute of the lookup map whose key is k, which is the
\* attribute's own value unless a later attribute has the same key.
C16_KeyIsNormalizedAlias ==
    (last.op = "lookup_resource" /\ last.err = "none") =>
        \A i \in DOMAIN res.lookup_properties :
            LET p == res.lookup_properties[i].k
                k == NormalizedKey(p)
                same == {j \in DOMAIN res.lookup_properties :
                            NormalizedKey(res.lookup_properties[j].k) = k}
                latest == CHOOSE j \in same : \A j2 \in same : j2 <= j
            IN  /\ DictHas(res.attributes_outputs, p)
                /\ DictGet(res.attributes_outputs, p).ImportValue =
                        Expr("FindInMap", <<Str(res.mapping_key), Str(res.logical_name), Str(k)>>)
                /\ k \in DOMAIN res.mappings
                /\ res.mappings[k] = res.lookup_properties[latest].v

\* Two attributes, one of them with the alias Q-N, were resolved together.
C16_Witness ==
    /\ last.op = "lookup_resource" /\ last.err = "none"
    /\ res.lookup_properties = PropsAB
    /\ <<"Q", "N">> \in DOMAIN res.mappings
    /\ Len(res.attributes_outputs) = 2

\* C19 (as claimed): an identity string of the tag search that does not match
\* the pattern raises the KeyError that names the pattern, as an explicit Arn
\* does, and no binding is produced.
C19_TagIdentityParsedAlike ==
    (/\ last.op = "lookup_resource"
     /\ "arn" \in AnswersOf("tags")
     /\ res.arn = BadArn) =>
        /\ last.err = "KeyError"
        /\ last.err_args = ArnRe.pattern
        /\ res.attributes_outputs = <<>>

\* C20 (as claimed): an add_new_output_attribute that ends in an error leaves
\* output_properties, attributes_outputs and outputs as they were before it.
C20_FailedRebuildAtomic ==
    [][(last'.op = "add_new_output_attribute" /\ last'.err # "none") =>
            /\ res'.output_properties = res.output_properties
            /\ res'.attributes_outputs = res.attributes_outputs
            /\ res'.outputs = res.outputs]_vars

\* C21 (as claimed): a lookup_resource whose resolved attribute map has a key
\* that is no Parameter raises TypeError, registers no binding and writes no
\* entry of the map into the mapping table, not even for its conforming keys.
C21_NonParameterKeyWritesNothing ==
    [][(/\ last'.op = "lookup_resource"
        /\ Resolving'
        /\ \E i \in DOMAIN res'.lookup_properties :
                res'.lookup_properties[i].k.cls # "Parameter") =>
            /\ last'.err = "TypeError"
            /\ res'.attributes_outputs = res.attributes_outputs
            /\ res'.mappings = res.mappings]_vars

====
